---- MODULE Spec2Model ----
(***************************************************************************)
(* Model of src/app.py (API Localizador): the location store, the device   *)
(* registry, the two persisted JSON documents, the reverse-geocoding       *)
(* cache and the forward-geocoding fallback chain.                         *)
(*                                                                         *)
(* Text is a tuple of atoms: single characters where the code inspects the *)
(* characters (identifiers, queries), whole literals where it does not.    *)
(* A JSON scalar is a pair <<tag, n>>: <<"num", n>> a number, <<"str", n>> *)
(* a string spelling the number n, <<"junk", 0>> a string spelling no      *)
(* number, <<"bool", b>>, <<"nan", 0>>, <<"null", 0>> and <<"absent", 0>>  *)
(* for a key the payload does not carry.  Coordinates are counted in units *)
(* of 1e-5 degree.                                                         *)
(***************************************************************************)
EXTENDS Integers, Sequences, FiniteSets, TLC

VARIABLES
    localizacoes,    \* app.py:21  device id -> Localizacao
    historico,       \* app.py:23  device id -> trail (sequence of entries)
    cache_enderecos, \* app.py:25  cache key -> address text
    nomes_file,      \* app.py:27  the registry document on disk
    historico_file,  \* app.py:29  the history document on disk
    last_save,       \* outcome of the latest write of the history document
    faults,          \* disk write failures the environment may still inject
    resp,            \* the latest request and its response
    geocode_log,     \* reverse_geocode calls: key, coordinates, request made, outcome
    ops,             \* requests the run may still serve
    geo,             \* the forward-geocoding request in progress (geocode's locals)
    th               \* the ingestion requests running concurrently, one per thread

vars == <<localizacoes, historico, cache_enderecos, nomes_file, historico_file,
          last_save, faults, resp, geocode_log, ops, geo, th>>

-----------------------------------------------------------------------------
(* Bounds of the model *)

\* disk write failures injected in one run
MaxFaults == 1

-----------------------------------------------------------------------------
(* Generic helpers *)

Max(a, b) == IF a >= b THEN a ELSE b

\* s[-n:] of Python for n > 0
LastN(s, n) == SubSeq(s, Max(1, Len(s) - n + 1), Len(s))

\* s[:n] of Python for n >= 0
FirstN(s, n) == SubSeq(s, 1, IF Len(s) < n THEN Len(s) ELSE n)

EmptyMap == [x \in {} |-> 0]

MapPut(m, k, v) == [x \in DOMAIN m \cup {k} |-> IF x = k THEN v ELSE m[x]]

MapDel(m, k) == [x \in DOMAIN m \ {k} |-> m[x]]

Absent == <<"absent", 0>>

None == <<"null", 0>>

NaN == <<"nan", 0>>

Err == <<"err", 0>>

Num(n) == <<"num", n>>

\* float(x) of Python on a JSON scalar: the number, NaN, or Err when it raises
\* (ValueError for a string spelling no number, TypeError for None)
Float(x) ==
    CASE x[1] = "num"  -> x
      [] x[1] = "str"  -> Num(x[2])
      [] x[1] = "bool" -> Num(x[2])
      [] x[1] = "nan"  -> NaN
      [] OTHER         -> Err

\* x < y of Python floats: every comparison with NaN is false
FloatLt(x, y) == x[1] = "num" /\ y[1] = "num" /\ x[2] < y[2]

\* data.get(key, default)
Get(v, default) == IF v = Absent THEN default ELSE v

-----------------------------------------------------------------------------
(* Text *)

Blank == " "

\* s.strip()
RECURSIVE LStrip(_)
LStrip(s) == IF s # <<>> /\ Head(s) = Blank THEN LStrip(Tail(s)) ELSE s

RECURSIVE RStrip(_)
RStrip(s) ==
    IF s # <<>> /\ s[Len(s)] = Blank THEN RStrip(SubSeq(s, 1, Len(s) - 1)) ELSE s

Strip(s) == RStrip(LStrip(s))

\* (v or "") for a JSON text value: None, a missing key and "" all give ""
OrEmpty(v) == IF v = Absent \/ v = None THEN <<>> ELSE v

\* (v or default).strip() or default
StripOr(v, default) ==
    LET a == IF OrEmpty(v) = <<>> THEN default ELSE v
        b == Strip(a)
    IN  IF b = <<>> THEN default ELSE b

Digit(d) ==
    CASE d = 0 -> "0" [] d = 1 -> "1" [] d = 2 -> "2" [] d = 3 -> "3"
      [] d = 4 -> "4" [] d = 5 -> "5" [] d = 6 -> "6" [] d = 7 -> "7"
      [] d = 8 -> "8" [] d = 9 -> "9"

Digits == {"0", "1", "2", "3", "4", "5", "6", "7", "8", "9"}

\* str(n) for n >= 0
RECURSIVE Str(_)
Str(n) == IF n < 10 THEN <<Digit(n)>> ELSE Str(n \div 10) \o <<Digit(n % 10)>>

-----------------------------------------------------------------------------
(* Location store: Localizacao, historico, salvar_historico *)

\* the slice bound of receber_localizacao
HistCap == 2000

\* the slice bound of salvar_historico
PersistCap == 2000

DefaultDeviceId == <<"dispositivo_1">>

\* normalisation of "bateria" in receber_localizacao
NormalizarBateria(b) ==
    IF b = Absent \/ b = None THEN None
    ELSE LET f == Float(b)
         IN  IF f = Err THEN None
             ELSE IF FloatLt(f, Num(0)) \/ FloatLt(Num(100), f) THEN None
             ELSE f

\* the Localizacao built by receber_localizacao
Localizacao(device_id, lat, lng, timestamp, bateria) ==
    [device_id |-> device_id, lat |-> lat, lng |-> lng, timestamp |-> timestamp,
     endereco |-> <<>>, bateria |-> bateria]

\* the trail entry appended by receber_localizacao
Entrada(lat, lng, timestamp) == [lat |-> lat, lng |-> lng, timestamp |-> timestamp]

\* historico[device_id] = [] when the device has no trail yet
GarantirRastro(h, device_id) ==
    IF device_id \in DOMAIN h THEN h ELSE MapPut(h, device_id, <<>>)

\* historico[device_id].append(entry)
Anexar(h, device_id, e) == [h EXCEPT ![device_id] = Append(@, e)]

\* the ingestion without its slice
TruncarSemCorte(h, device_id) == h

\* historico[device_id] = historico[device_id][-2000:]
Truncar(h, device_id) == [h EXCEPT ![device_id] = LastN(@, HistCap)]

\* the dict comprehension of salvar_historico
Limitado(h) ==
    [d \in DOMAIN h |-> IF Len(h[d]) > PersistCap THEN LastN(h[d], PersistCap) ELSE h[d]]

\* What a write of the history document can do: "ok" writes it, "unchanged"
\* is open() raising, "truncated" is open() emptying the file and json.dump
\* raising, after which carregar_historico reads {}.
SaveOutcomes == IF faults > 0 THEN {"ok", "unchanged", "truncated"} ELSE {"ok"}

\* salvar_historico: the document on disk after the call
SalvarHistorico(h, file, outcome) ==
    CASE outcome = "ok"        -> Limitado(h)
      [] outcome = "unchanged" -> file
      [] outcome = "truncated" -> EmptyMap

FaultsAfter(outcome) == IF outcome = "ok" THEN faults ELSE faults - 1

\* POST /api/localizacao
ReceberLocalizacao(data, now, outcome) ==
    /\ ops > 0
    /\ ops' = ops - 1
    /\ IF data.lat = Absent \/ data.lng = Absent
       THEN /\ resp' = [op |-> "localizacao", status |-> 400,
                        device_id |-> <<>>, data |-> data]
            /\ UNCHANGED <<localizacoes, historico, historico_file, last_save, faults>>
       ELSE LET device_id == Get(data.device_id, DefaultDeviceId)
                lat       == Float(data.lat)
                lng       == Float(data.lng)
                timestamp == Get(data.timestamp, now)
                bateria   == NormalizarBateria(data.bateria)
            IN  IF lat = Err \/ lng = Err
                THEN /\ resp' = [op |-> "localizacao", status |-> 500,
                                 device_id |-> device_id, data |-> data]
                     /\ UNCHANGED <<localizacoes, historico, historico_file,
                                    last_save, faults>>
                ELSE LET h == Truncar(Anexar(GarantirRastro(historico, device_id),
                                             device_id, Entrada(lat, lng, timestamp)),
                                      device_id)
                     IN  /\ localizacoes' = MapPut(localizacoes, device_id,
                                Localizacao(device_id, lat, lng, timestamp, bateria))
                         /\ historico' = h
                         /\ historico_file' = SalvarHistorico(h, historico_file, outcome)
                         /\ last_save' = outcome
                         /\ faults' = FaultsAfter(outcome)
                         /\ resp' = [op |-> "localizacao", status |-> 200,
                                     device_id |-> device_id, data |-> data]
    /\ UNCHANGED <<cache_enderecos, nomes_file, geocode_log>>
    /\ UNCHANGED <<geo, th>>

-----------------------------------------------------------------------------
(* Device registry *)

DefaultIcon == <<"U+1F697">>

DefaultColor == <<"#00d4aa">>

\* the bounds of random.randint in cadastrar_rastreador
RandLo == 10000

RandHi == 99999

\* how many of the low identifiers the model draws, besides the highest one
MaxIds == 2

Draws == (RandLo .. RandLo + MaxIds - 1) \cup {RandHi}

\* "R" + str(random.randint(10000, 99999))
NovoId(n) == <<"R">> \o Str(n)

\* the draw without the loop
CandidatosSemLaco(nomes) == {NovoId(n) : n \in Draws}

\* the identifiers the draw-until-unique loop of cadastrar_rastreador can end with
Candidatos(nomes) == {id \in {NovoId(n) : n \in Draws} : id \notin DOMAIN nomes}

\* What a write of the registry document can do: salvar_nomes has no handler
\* of its own, so a failure raises into the endpoint.
NomesOutcomes == IF faults > 0 THEN {"ok", "unchanged", "truncated"} ELSE {"ok"}

\* salvar_nomes: the document on disk after the call
SalvarNomes(nomes, file, outcome) ==
    CASE outcome = "ok"        -> nomes
      [] outcome = "unchanged" -> file
      [] outcome = "truncated" -> EmptyMap

\* POST /api/cadastrar
CadastrarRastreador(data, outcome) ==
    /\ ops > 0
    /\ ops' = ops - 1
    /\ LET nome == Strip(OrEmpty(data.nome))
       IN  IF nome = <<>>
           THEN /\ resp' = [op |-> "cadastrar", status |-> 400,
                            device_id |-> <<>>, data |-> data]
                /\ UNCHANGED <<nomes_file, faults>>
           ELSE LET icon  == StripOr(data.icon, DefaultIcon)
                    color == StripOr(data.color, DefaultColor)
                    nomes == nomes_file
                IN  \E device_id \in Candidatos(nomes) :
                      /\ nomes_file' = SalvarNomes(
                             MapPut(nomes, device_id,
                                    [nome |-> nome, icon |-> icon, color |-> color]),
                             nomes_file, outcome)
                      /\ faults' = FaultsAfter(outcome)
                      /\ resp' = [op |-> "cadastrar",
                                  status |-> IF outcome = "ok" THEN 200 ELSE 500,
                                  device_id |-> device_id, data |-> data]
    /\ UNCHANGED <<localizacoes, historico, historico_file, last_save,
                   cache_enderecos, geocode_log>>
    /\ UNCHANGED <<geo, th>>

\* POST /api/nomes
SalvarNomesApi(data, outcome) ==
    /\ ops > 0
    /\ ops' = ops - 1
    /\ IF OrEmpty(data.device_id) = <<>>
       THEN /\ resp' = [op |-> "nomes", status |-> 400,
                        device_id |-> <<>>, data |-> data]
            /\ UNCHANGED <<nomes_file, faults>>
       ELSE LET device_id == data.device_id
                nome  == Strip(OrEmpty(data.nome))
                icon  == StripOr(data.icon, DefaultIcon)
                color == StripOr(data.color, DefaultColor)
                info  == [nome  |-> IF nome = <<>> THEN device_id ELSE nome,
                          icon  |-> icon, color |-> color]
            IN  /\ nomes_file' = SalvarNomes(MapPut(nomes_file, device_id, info),
                                             nomes_file, outcome)
                /\ faults' = FaultsAfter(outcome)
                /\ resp' = [op |-> "nomes",
                            status |-> IF outcome = "ok" THEN 200 ELSE 500,
                            device_id |-> device_id, data |-> data]
    /\ UNCHANGED <<localizacoes, historico, historico_file, last_save,
                   cache_enderecos, geocode_log>>
    /\ UNCHANGED <<geo, th>>

\* the removal without its registry check
RegistradoSempre(nomes, device_id) == TRUE

\* the removal that keeps the position
ApagarNada(l, device_id) == l

\* del localizacoes[device_id] when the device has a position
ApagarLocalizacao(l, device_id) == MapDel(l, device_id)

\* whether remover_dispositivo goes on to delete: the identifier is registered
Registrado(nomes, device_id) == device_id \in DOMAIN nomes

\* DELETE /api/dispositivo/<device_id>
RemoverDispositivo(device_id, nomes_outcome, outcome) ==
    /\ ops > 0
    /\ ops' = ops - 1
    /\ IF ~Registrado(nomes_file, device_id)
       THEN /\ resp' = [op |-> "remover", status |-> 404,
                        device_id |-> device_id, data |-> <<>>]
            /\ UNCHANGED <<nomes_file, localizacoes, historico, historico_file,
                           last_save, faults>>
       ELSE /\ nomes_file' = SalvarNomes(MapDel(nomes_file, device_id),
                                         nomes_file, nomes_outcome)
            /\ IF nomes_outcome # "ok"
               THEN /\ resp' = [op |-> "remover", status |-> 500,
                                device_id |-> device_id, data |-> <<>>]
                    /\ faults' = faults - 1
                    /\ UNCHANGED <<localizacoes, historico, historico_file, last_save>>
               ELSE /\ localizacoes' = ApagarLocalizacao(localizacoes, device_id)
                    /\ IF device_id \in DOMAIN historico
                       THEN /\ historico' = MapDel(historico, device_id)
                            /\ historico_file' =
                                   SalvarHistorico(MapDel(historico, device_id),
                                                   historico_file, outcome)
                            /\ last_save' = outcome
                            /\ faults' = FaultsAfter(outcome)
                       ELSE /\ outcome = "ok"
                            /\ UNCHANGED <<historico, historico_file, last_save, faults>>
                    /\ resp' = [op |-> "remover", status |-> 200,
                                device_id |-> device_id, data |-> <<>>]
    /\ UNCHANGED <<cache_enderecos, geocode_log>>
    /\ UNCHANGED <<geo, th>>

-----------------------------------------------------------------------------
(* Reverse geocoding: _formatar_endereco_simples, reverse_geocode *)

NaoEncontrado == <<"Endereco nao encontrado">>

NaoDisponivel == <<"Endereco nao disponivel">>

\* addr.get(k1) or addr.get(k2) or ... or ""
RECURSIVE FirstOf(_, _)
FirstOf(addr, keys) ==
    IF keys = <<>> THEN <<>>
    ELSE IF Head(keys) \in DOMAIN addr /\ addr[Head(keys)] # <<>>
         THEN addr[Head(keys)]
         ELSE FirstOf(addr, Tail(keys))

\* ", ".join(parts) over the non-empty parts
RECURSIVE JoinNonEmpty(_)
JoinNonEmpty(parts) ==
    IF parts = <<>> THEN <<>>
    ELSE LET rest == JoinNonEmpty(Tail(parts))
         IN  IF Head(parts) = <<>> THEN rest
             ELSE IF rest = <<>> THEN Head(parts)
             ELSE Head(parts) \o <<",", " ">> \o rest

\* _formatar_endereco_simples
FormatarEnderecoSimples(addr) ==
    IF DOMAIN addr = {} THEN NaoEncontrado
    ELSE LET rua    == FirstOf(addr, <<"road", "street", "pedestrian">>)
             bairro == FirstOf(addr, <<"neighbourhood", "suburb", "quarter",
                                       "city_district", "district", "residential">>)
             cidade == FirstOf(addr, <<"city", "town", "village", "municipality",
                                       "county">>)
             partes == JoinNonEmpty(<<rua, bairro, cidade>>)
         IN  IF partes = <<>> THEN NaoEncontrado ELSE partes

Abs(x) == IF x < 0 THEN -x ELSE x

\* f"{x:.4f}" of a coordinate counted in 1e-5 degree: the sign and the magnitude
\* rounded to 1e-4 (ties to even, as the exact decimal would round)
Fmt4(x) ==
    IF x[1] = "nan" THEN <<"nan", 0>>
    ELSE LET m == Abs(x[2])
             q == m \div 10
             r == m % 10
             k == IF r < 5 THEN q
                  ELSE IF r > 5 THEN q + 1
                  ELSE IF q % 2 = 0 THEN q ELSE q + 1
         IN  <<IF x[2] < 0 THEN "-" ELSE "", k>>

\* cache_key = f"{lat:.4f}_{lng:.4f}"
CacheKey(lat, lng) == <<Fmt4(lat), Fmt4(lng)>>

\* What the external reverse-geocoding request can do: raise (transport failure
\* or timeout), answer a status other than 200, answer 200 with a body that is
\* no JSON object (resp.json() or data.get raises), or answer 200 with a JSON
\* object whose "address" is one of Enderecos.
Enderecos ==
    { EmptyMap,
      [k \in {"road", "suburb", "neighbourhood", "city"} |->
          CASE k = "road" -> <<"Rua A">> [] k = "suburb" -> <<"Centro">>
            [] k = "neighbourhood" -> <<"Vila B">> [] k = "city" -> <<"Sao Paulo">>],
      [k \in {"pedestrian", "town", "county"} |->
          CASE k = "pedestrian" -> <<"Calcadao">> [] k = "town" -> <<"Itu">>
            [] k = "county" -> <<"Regiao">>] }

ReverseOutcomes ==
    {[kind |-> "raise", addr |-> EmptyMap], [kind |-> "non200", addr |-> EmptyMap],
     [kind |-> "badbody", addr |-> EmptyMap]}
    \cup {[kind |-> "ok", addr |-> a] : a \in Enderecos}

\* the resolver that never stores
CacheiaNunca(outcome) == FALSE

\* whether reverse_geocode stores the result of a request in cache_enderecos
Cacheia(outcome) == outcome.kind = "ok"

\* reverse_geocode: <<the address returned, the cache afterwards, the log entry>>
ReverseGeocode(lat, lng, cache, outcome) ==
    LET cache_key == CacheKey(lat, lng)
    IN  IF cache_key \in DOMAIN cache
        THEN <<cache[cache_key], cache,
               [key |-> cache_key, lat |-> lat, lng |-> lng,
                request |-> FALSE, kind |-> "cached"]>>
        ELSE IF Cacheia(outcome)
             THEN LET endereco == FormatarEnderecoSimples(outcome.addr)
                  IN  <<endereco, MapPut(cache, cache_key, endereco),
                        [key |-> cache_key, lat |-> lat, lng |-> lng,
                         request |-> TRUE, kind |-> outcome.kind]>>
             ELSE <<NaoDisponivel, cache,
                    [key |-> cache_key, lat |-> lat, lng |-> lng,
                     request |-> TRUE, kind |-> outcome.kind]>>

\* GET /api/endereco/<device_id>
ObterEndereco(device_id, outcome) ==
    /\ ops > 0
    /\ ops' = ops - 1
    /\ IF device_id \notin DOMAIN localizacoes
       THEN /\ resp' = [op |-> "endereco", status |-> 404,
                        device_id |-> device_id, data |-> <<>>]
            /\ outcome.kind = "raise"
            /\ UNCHANGED <<localizacoes, cache_enderecos, geocode_log>>
       ELSE LET loc == localizacoes[device_id]
            IN  IF loc.endereco # <<>>
                THEN /\ resp' = [op |-> "endereco", status |-> 200,
                                 device_id |-> device_id, data |-> loc.endereco]
                     /\ outcome.kind = "raise"
                     /\ UNCHANGED <<localizacoes, cache_enderecos, geocode_log>>
                ELSE LET r == ReverseGeocode(loc.lat, loc.lng, cache_enderecos, outcome)
                     IN  /\ r[3].request \/ outcome.kind = "raise"
                         /\ localizacoes' =
                                [localizacoes EXCEPT ![device_id].endereco = r[1]]
                         /\ cache_enderecos' = r[2]
                         /\ geocode_log' = Append(geocode_log, r[3])
                         /\ resp' = [op |-> "endereco", status |-> 200,
                                     device_id |-> device_id, data |-> r[1]]
    /\ UNCHANGED <<historico, nomes_file, historico_file, last_save, faults>>
    /\ UNCHANGED <<geo, th>>

-----------------------------------------------------------------------------
(* Requests and initial states of the sequential specifications *)

R10000 == NovoId(RandLo)

R10001 == NovoId(RandLo + 1)

Payload(device_id, lat, lng, timestamp, bateria) ==
    [device_id |-> device_id, lat |-> lat, lng |-> lng, timestamp |-> timestamp,
     bateria |-> bateria]

\* time.time() at the moment of the request
Clock == {Num(1700000000)}

\* no forward-geocoding request has been made
GeoIdle == [pc |-> "idle"]

\* the worker threads of the server
Threads == {1, 2}

\* no thread is inside receber_localizacao
ThIdle == [t \in Threads |-> [pc |-> "idle"]]

Start == [op |-> "start", status |-> 0, device_id |-> <<>>, data |-> <<>>]

Registro(nome) == [nome |-> nome, icon |-> DefaultIcon, color |-> DefaultColor]

\* a trail of n entries persisted by earlier runs
RastroAntigo(n) == [i \in 1 .. n |-> Entrada(Num(-2355000), Num(-4663000), Num(i))]

\* The state after the module is loaded: the maps are empty but for historico,
\* which holds what carregar_historico read.
InitWith(nomes, hist, n, f) ==
    /\ localizacoes = EmptyMap
    /\ historico = hist
    /\ historico_file = hist
    /\ nomes_file = nomes
    /\ cache_enderecos = EmptyMap
    /\ last_save = "none"
    /\ faults = f
    /\ resp = Start
    /\ geocode_log = <<>>
    /\ ops = n
    /\ geo = GeoIdle
    /\ th = ThIdle

-----------------------------------------------------------------------------
(* Spec: ingestion, address lookup and removal over the location store *)

MaxOps == 3

Payloads ==
    { Payload(Absent, Num(-2355004), Num(-4663000), Absent, Absent),
      Payload(R10000, Num(-2355004), Num(-4663000), Num(1700000100), Num(100)),
      Payload(R10000, <<"str", -2355001>>, Num(-4663000), Num(1700000200), <<"str", 50>>),
      Payload(R10000, Num(-2354990), <<"str", -4663000>>, None, Num(0)),
      Payload(R10000, Num(-2355004), Num(-4663000), Absent, Num(101)),
      Payload(R10000, Num(-2355004), Num(-4663000), Absent, Num(-1)),
      Payload(R10000, Num(-2355004), Num(-4663000), Absent, NaN),
      Payload(R10000, Num(-2355004), Num(-4663000), Absent, <<"junk", 0>>),
      Payload(R10000, Num(-2355004), Num(-4663000), Absent, <<"bool", 1>>),
      Payload(R10000, Num(-2355004), Num(-4663000), Absent, None),
      Payload(R10000, <<"junk", 0>>, Num(-4663000), Absent, Absent),
      Payload(R10000, Num(-2355004), None, Absent, Absent),
      Payload(R10000, Num(-2355004), Absent, Absent, Num(50)),
      Payload(R10000, Absent, Num(-4663000), Absent, Absent) }

Init ==
    \E nomes \in {EmptyMap, MapPut(EmptyMap, R10000, Registro(<<"A">>))},
       hist \in {EmptyMap, MapPut(EmptyMap, R10000, RastroAntigo(1))} :
      InitWith(nomes, hist, MaxOps, MaxFaults)

Next ==
    \/ \E data \in Payloads, now \in Clock, outcome \in SaveOutcomes :
         ReceberLocalizacao(data, now, outcome)
    \/ \E device_id \in {R10000, DefaultDeviceId},
          outcome \in {o \in ReverseOutcomes : o.addr \in {EmptyMap}} :
         ObterEndereco(device_id, outcome)
    \/ \E device_id \in {R10000, DefaultDeviceId},
          nomes_outcome \in NomesOutcomes, outcome \in SaveOutcomes :
         RemoverDispositivo(device_id, nomes_outcome, outcome)

Spec == Init /\ [][Next]_vars

-----------------------------------------------------------------------------
(* RegSpec: the registry endpoints, with ingestion and removal *)

MaxRegOps == 3

\* POST /api/cadastrar bodies
Cadastros ==
    { [nome |-> <<"A">>, icon |-> Absent, color |-> Absent],
      [nome |-> <<" ", "B", " ">>, icon |-> <<" ", "i">>, color |-> <<>>],
      [nome |-> <<" ">>, icon |-> <<"i">>, color |-> <<"c">>],
      [nome |-> Absent, icon |-> Absent, color |-> Absent] }

\* POST /api/nomes bodies
Nomes ==
    { [device_id |-> R10000, nome |-> <<"C">>, icon |-> <<"i">>, color |-> None],
      [device_id |-> DefaultDeviceId, nome |-> <<>>, icon |-> Absent, color |-> <<"c">>],
      [device_id |-> Absent, nome |-> <<"C">>, icon |-> Absent, color |-> Absent] }

RegPayloads ==
    { Payload(Absent, Num(-2355004), Num(-4663000), Absent, Absent),
      Payload(R10000, Num(-2355004), Num(-4663000), Num(1700000100), Num(100)) }

RegInit ==
    \E nomes \in {EmptyMap, MapPut(EmptyMap, R10000, Registro(<<"A">>))},
       hist \in {EmptyMap, MapPut(EmptyMap, R10000, RastroAntigo(1))} :
      InitWith(nomes, hist, MaxRegOps, MaxFaults)

RegNext ==
    \/ \E data \in RegPayloads, now \in Clock, outcome \in SaveOutcomes :
         ReceberLocalizacao(data, now, outcome)
    \/ \E data \in Cadastros, outcome \in NomesOutcomes :
         CadastrarRastreador(data, outcome)
    \/ \E data \in Nomes, outcome \in NomesOutcomes :
         SalvarNomesApi(data, outcome)
    \/ \E device_id \in {R10000, R10001, DefaultDeviceId},
          nomes_outcome \in NomesOutcomes, outcome \in SaveOutcomes :
         RemoverDispositivo(device_id, nomes_outcome, outcome)

RegSpec == RegInit /\ [][RegNext]_vars

-----------------------------------------------------------------------------
(* TrailSpec: ingestion and removal over trails at the cap *)

MaxTrailOps == 3

TrailPayloads ==
    { Payload(Absent, Num(-2355004), Num(-4663000), Absent, Absent),
      Payload(R10000, Num(-2354990), Num(-4663000), Num(1700000200), Absent) }

TrailInit ==
    \E hist \in {EmptyMap} \cup
                {MapPut(EmptyMap, R10000, RastroAntigo(n)) : n \in {HistCap - 1, HistCap}} :
      InitWith(MapPut(EmptyMap, R10000, Registro(<<"A">>)), hist, MaxTrailOps, MaxFaults)

TrailNext ==
    \/ \E data \in TrailPayloads, now \in Clock, outcome \in SaveOutcomes :
         ReceberLocalizacao(data, now, outcome)
    \/ \E device_id \in {R10000, DefaultDeviceId},
          nomes_outcome \in NomesOutcomes, outcome \in SaveOutcomes :
         RemoverDispositivo(device_id, nomes_outcome, outcome)

TrailSpec == TrailInit /\ [][TrailNext]_vars

-----------------------------------------------------------------------------
(* RevSpec: address lookups of positions that share a cache key *)

MaxRevOps == 4

RevPayloads ==
    { Payload(Absent, Num(-2355004), Num(-4663000), Absent, Absent),
      Payload(R10000, <<"str", -2355001>>, Num(-4663000), Absent, Absent),
      Payload(R10000, Num(-2354990), Num(-4663000), Absent, Absent) }

RevInit == InitWith(EmptyMap, EmptyMap, MaxRevOps, 0)

RevNext ==
    \/ \E data \in RevPayloads, now \in Clock, outcome \in SaveOutcomes :
         ReceberLocalizacao(data, now, outcome)
    \/ \E device_id \in {R10000, DefaultDeviceId}, outcome \in ReverseOutcomes :
         ObterEndereco(device_id, outcome)

RevSpec == RevInit /\ [][RevNext]_vars

-----------------------------------------------------------------------------
(* Claims over the store, the registry and the reverse resolver *)

\* C1 (TrailSpec): after any sequence of ingestion and removal calls every
\* device's trail has at most 2000 entries, in the in-memory history map and in
\* the persisted history document.
C1_TrailAtMost2000 ==
    /\ \A d \in DOMAIN historico : Len(historico[d]) <= 2000
    /\ \A d \in DOMAIN historico_file : Len(historico_file[d]) <= 2000

\* An ingestion has just pushed a full trail over the cap: the oldest entry is
\* gone, the new one is last, in memory and on disk.
C1_Witness ==
    /\ resp.op = "localizacao" /\ resp.status = 200
    /\ resp.device_id \in DOMAIN historico
    /\ resp.device_id \in DOMAIN historico_file
    /\ Len(historico[resp.device_id]) = 2000
    /\ historico[resp.device_id][1].timestamp = Num(2)
    /\ historico[resp.device_id][2000].timestamp = resp.data.timestamp
    /\ historico_file[resp.device_id] = historico[resp.device_id]

\* C2: after a successful ingestion the device's record holds the submitted
\* lat, lng and timestamp, an empty address, and the submitted battery when it
\* is a number in [0,100], no battery otherwise; nothing of the earlier record
\* survives.  Values are compared as numbers: a string spelling a number counts
\* as that number.
C2_RecordIsSubmitted ==
    (resp.op = "localizacao" /\ resp.status = 200) =>
        /\ resp.device_id \in DOMAIN localizacoes
        /\ LET loc == localizacoes[resp.device_id]
               d   == resp.data
               b   == d.bateria
               value(x) == IF x[1] \in {"str", "bool"} THEN <<"num", x[2]>> ELSE x
           IN  loc = [device_id |-> resp.device_id,
                      lat       |-> value(d.lat),
                      lng       |-> value(d.lng),
                      timestamp |-> IF d.timestamp = Absent THEN loc.timestamp
                                    ELSE d.timestamp,
                      endereco  |-> <<>>,
                      bateria   |->
                          IF b[1] \in {"num", "str", "bool"} /\ b[2] >= 0 /\ b[2] <= 100
                          THEN <<"num", b[2]>> ELSE <<"null", 0>>]

\* C2 but for a battery that converts to NaN.
C2_ButForNaN ==
    (resp.op = "localizacao" /\ resp.data.bateria = NaN) \/ C2_RecordIsSubmitted

C4_UnknownRemovalChangesNothing ==
    [][(resp'.op = "remover" /\ ops' # ops /\ resp'.device_id \notin DOMAIN nomes_file)
         => /\ resp'.status = 404
            /\ UNCHANGED <<nomes_file, localizacoes, historico, historico_file>>]_vars

\* A 404 removal of an identifier that has a position and a trail.
C4_Witness ==
    /\ resp.op = "remover" /\ resp.status = 404
    /\ resp.device_id \in DOMAIN localizacoes
    /\ resp.device_id \in DOMAIN historico
    /\ resp.device_id \in DOMAIN historico_file

Letters ==
    {"A", "B", "C", "D", "E", "F", "G", "H", "I", "J", "K", "L", "M",
     "N", "O", "P", "Q", "R", "S", "T", "U", "V", "W", "X", "Y", "Z"}

\* C5 as stated: a successful registration returns a letter-and-five-digits
\* identifier that was no key of the registry, the registry then maps it to the
\* submitted name, icon and color, and every earlier entry is kept unchanged.
C5_AsStated ==
    [][(resp'.op = "cadastrar" /\ resp'.status = 200 /\ ops' # ops) =>
         LET id == resp'.device_id
             d  == resp'.data
         IN  /\ Len(id) = 6 /\ id[1] \in Letters /\ \A i \in 2 .. 6 : id[i] \in Digits
             /\ id \notin DOMAIN nomes_file
             /\ id \in DOMAIN nomes_file'
             /\ nomes_file'[id].nome = d.nome
             /\ d.icon # Absent => nomes_file'[id].icon = d.icon
             /\ d.color # Absent => nomes_file'[id].color = d.color
             /\ \A k \in DOMAIN nomes_file :
                  k \in DOMAIN nomes_file' /\ nomes_file'[k] = nomes_file[k]]_vars

\* C5 amended: a successful registration returns a letter-and-five-digits
\* identifier that was no key of the registry, the registry then maps it to the
\* trimmed name and to the trimmed icon and color, each replaced by its default
\* when missing or blank, and every earlier entry is kept unchanged.
C5_Amended ==
    [][(resp'.op = "cadastrar" /\ resp'.status = 200 /\ ops' # ops) =>
         LET id == resp'.device_id
             d  == resp'.data
             or(v, default) ==
                 IF v = Absent \/ v = None \/ Strip(v) = <<>> THEN default ELSE Strip(v)
         IN  /\ Len(id) = 6 /\ id[1] \in Letters /\ \A i \in 2 .. 6 : id[i] \in Digits
             /\ id \notin DOMAIN nomes_file
             /\ id \in DOMAIN nomes_file'
             /\ nomes_file'[id] = [nome  |-> Strip(d.nome),
                                   icon  |-> or(d.icon, <<"U+1F697">>),
                                   color |-> or(d.color, <<"#00d4aa">>)]
             /\ Strip(d.nome) # <<>>
             /\ \A k \in DOMAIN nomes_file :
                  k \in DOMAIN nomes_file' /\ nomes_file'[k] = nomes_file[k]]_vars

\* A registration with a padded name and a blank color has just been added next
\* to an entry that was there before.
C5_Witness ==
    /\ resp.op = "cadastrar" /\ resp.status = 200
    /\ resp.data.nome = <<" ", "B", " ">>
    /\ resp.device_id \in DOMAIN nomes_file
    /\ nomes_file[resp.device_id].nome = <<"B">>
    /\ R10000 \in DOMAIN nomes_file
    /\ resp.device_id # R10000

-----------------------------------------------------------------------------
(* Forward geocoding: geocode and its helpers *)

\* the slice bound of _nominatim_to_results
NominatimCap == 10

\* the slice bound of _photon_to_results
PhotonCap == 10

\* the length of a postal code
CepLen == 8

store == <<localizacoes, historico, cache_enderecos, nomes_file, historico_file,
           last_save, faults, resp, geocode_log, th>>

IsDigit(c) == c \in Digits

\* "".join(c for c in q if c.isdigit())
OnlyDigits(q) == SelectSeq(q, IsDigit)

\* the position of the first comma of s, 0 when it has none
RECURSIVE FirstComma(_, _)
FirstComma(s, i) ==
    IF i > Len(s) THEN 0 ELSE IF s[i] = "," THEN i ELSE FirstComma(s, i + 1)

\* s.split(",")
RECURSIVE Split(_)
Split(s) ==
    LET i == FirstComma(s, 1)
    IN  IF i = 0 THEN <<s>>
        ELSE <<SubSeq(s, 1, i - 1)>> \o Split(SubSeq(s, i + 1, Len(s)))

RECURSIVE StripAll(_)
StripAll(ps) == IF ps = <<>> THEN <<>> ELSE <<Strip(Head(ps))>> \o StripAll(Tail(ps))

NonEmpty(t) == t # <<>>

\* [p.strip() for p in texto.split(",") if p.strip()]
Partes(texto) == SelectSeq(StripAll(Split(texto)), NonEmpty)

\* _photon_query_simples
PhotonQuerySimples(texto) ==
    LET partes == Partes(texto)
        n      == Len(partes)
    IN  IF n <= 2 THEN texto
        ELSE LET ultima == partes[n]
                 cidade == IF Len(ultima) = 2 THEN partes[n - 1] ELSE ultima
             IN  partes[1] \o <<",", " ">> \o cidade

Brasil == <<",", " ", "Brasil">>

\* the guard every stage after the first starts with, "if not results"; with
\* VazioSempre the stages stop looking at it
VazioSempre(results) == TRUE

Vazio(results) == results = <<>>

\* _nominatim_to_results over the items left: [ok, results], ok FALSE when it
\* raises (an item that is no object, a lat or lon float() rejects)
RECURSIVE NominatimItems(_)
NominatimItems(items) ==
    IF items = <<>> THEN [ok |-> TRUE, results |-> <<>>]
    ELSE LET r    == Head(items)
             rest == NominatimItems(Tail(items))
         IN  IF r.lat = Absent \/ r.lat = None \/ r.lon = Absent \/ r.lon = None
             THEN rest
             ELSE IF Float(r.lat) = Err \/ Float(r.lon) = Err
                  THEN [ok |-> FALSE, results |-> <<>>]
                  ELSE [ok |-> rest.ok,
                        results |-> <<[lat |-> Float(r.lat), lng |-> Float(r.lon),
                                       display_name |-> r.display_name]>>
                                    \o rest.results]

\* _nominatim_to_results(nom): a JSON object cannot be sliced and raises
NominatimToResults(nom) ==
    CASE nom.kind = "fail"   -> [ok |-> TRUE, results |-> <<>>]
      [] nom.kind = "object" -> [ok |-> FALSE, results |-> <<>>]
      [] nom.kind = "list"   -> NominatimItems(FirstN(nom.items, NominatimCap))

\* the label _photon_to_results builds from a feature's properties
PhotonLabel(p, lat, lng) ==
    LET label == JoinNonEmpty(<<FirstOf(p, <<"street", "name">>),
                                FirstOf(p, <<"housenumber">>),
                                FirstOf(p, <<"locality", "district">>),
                                FirstOf(p, <<"city">>), FirstOf(p, <<"state">>)>>)
    IN  IF label # <<>> THEN label
        ELSE IF FirstOf(p, <<"name">>) # <<>> THEN FirstOf(p, <<"name">>)
        ELSE Str(lat) \o <<",", " ">> \o Str(lng)

\* _photon_to_results over the features left
RECURSIVE PhotonFeatures(_)
PhotonFeatures(features) ==
    IF features = <<>> THEN <<>>
    ELSE LET f == Head(features)
         IN  IF Len(f.coords) < 2 THEN PhotonFeatures(Tail(features))
             ELSE <<[lat |-> Num(f.coords[2]), lng |-> Num(f.coords[1]),
                     display_name |-> PhotonLabel(f.props, f.coords[2], f.coords[1])]>>
                  \o PhotonFeatures(Tail(features))

\* _photon_to_results
PhotonToResults(features) == PhotonFeatures(FirstN(features, PhotonCap))

\* whether viacep_data is truthy: a non-empty object, or another truthy JSON value
Truthy(viacep) == viacep.kind \in {"dict", "truthy"}

ViaCepNone ==
    [kind |-> "none", erro |-> FALSE, logradouro |-> <<>>, bairro |-> <<>>,
     localidade |-> <<>>, uf |-> <<>>]

Call(stage, service, q, sent, out) ==
    [stage |-> stage, service |-> service, q |-> q, sent |-> sent, out |-> out]

StageName(k) ==
    CASE k = 2 -> "photon" [] k = 3 -> "photon_bbox" [] k = 4 -> "nominatim"
      [] k = 5 -> "nominatim_cidade" [] k = 6 -> "nominatim_raw"

\* the condition guarding stage k of geocode, 2 <= k <= 6
StageGuard(g, k) ==
    /\ Vazio(g.results)
    /\ k = 5 => (\E i \in DOMAIN g.q : g.q[i] = Blank) /\ Len(Partes(g.q)) >= 2

\* the handler runs on from stage k to the next stage whose guard holds, or returns
RECURSIVE Advance(_, _)
Advance(g, k) ==
    IF k > 6 THEN [g EXCEPT !.pc = "done", !.status = 200]
    ELSE IF StageGuard(g, k) THEN [g EXCEPT !.pc = StageName(k)]
    ELSE Advance(g, k + 1)

\* an exception leaves the handler: the server answers 500
Raise(g) == [g EXCEPT !.pc = "done", !.status = 500]

\* geocode after the try block of stage 1: the rewrite of q
AfterCep(g) ==
    IF Vazio(g.results) /\ Truthy(g.viacep)
    THEN IF g.viacep.kind # "dict" THEN Raise(g)
         ELSE Advance([g EXCEPT !.q = JoinNonEmpty(<<g.viacep.logradouro, g.viacep.bairro,
                                                     g.viacep.localidade, g.viacep.uf>>)],
                      2)
    ELSE Advance(g, 2)

\* GET /api/geocode: the request arrives
GeoStart(arg) ==
    /\ ops > 0 /\ geo.pc \in {"idle", "done"}
    /\ ops' = ops - 1
    /\ LET q == Strip(OrEmpty(arg))
           g == [pc |-> "start", arg |-> arg, q0 |-> q, q |-> q, results |-> <<>>,
                 viacep |-> ViaCepNone, calls |-> <<>>, status |-> 0]
       IN  geo' = IF q = <<>> THEN [g EXCEPT !.pc = "done", !.status = 400]
                  ELSE IF Len(OnlyDigits(q)) = CepLen THEN [g EXCEPT !.pc = "viacep"]
                  ELSE Advance(g, 2)
    /\ UNCHANGED store

\* stage 1: the postal lookup
GeoViaCep(r) ==
    /\ geo.pc = "viacep"
    /\ LET g == [geo EXCEPT !.calls = Append(@, Call(1, "viacep", geo.q,
                                                     OnlyDigits(geo.q), <<>>))]
       IN  geo' =
             IF r.status # "json" THEN AfterCep(g)
             ELSE LET v == [g EXCEPT !.viacep = r.data]
                  IN  IF r.data.kind # "dict" \/ r.data.erro THEN AfterCep(v)
                      ELSE IF r.data.logradouro # <<>> /\ r.data.localidade # <<>>
                           THEN [v EXCEPT !.pc = "cep_rua"]
                      ELSE IF Vazio(v.results) /\ r.data.localidade # <<>>
                           THEN [v EXCEPT !.pc = "cep_cidade"]
                      ELSE AfterCep(v)
    /\ UNCHANGED <<store, ops>>

\* stage 1: the structured search with street, city and state
GeoCepRua(nom) ==
    /\ geo.pc = "cep_rua"
    /\ LET conv == NominatimToResults(nom)
           out  == IF conv.ok THEN conv.results ELSE <<>>
           g    == [geo EXCEPT !.results = out,
                               !.calls = Append(@, Call(1, "nominatim", geo.q,
                                   JoinNonEmpty(<<geo.viacep.logradouro,
                                                  geo.viacep.localidade, geo.viacep.uf,
                                                  <<"Brasil">>>>), out))]
       IN  geo' = IF conv.ok /\ Vazio(g.results) /\ g.viacep.localidade # <<>>
                  THEN [g EXCEPT !.pc = "cep_cidade"]
                  ELSE AfterCep(g)
    /\ UNCHANGED <<store, ops>>

\* stage 1: the structured search with city and state
GeoCepCidade(nom) ==
    /\ geo.pc = "cep_cidade"
    /\ LET conv == NominatimToResults(nom)
           out  == IF conv.ok THEN conv.results ELSE <<>>
       IN  geo' = AfterCep([geo EXCEPT !.results = out,
                                       !.calls = Append(@, Call(1, "nominatim", geo.q,
                                           JoinNonEmpty(<<geo.viacep.localidade,
                                                          geo.viacep.uf, <<"Brasil">>>>),
                                           out))])
    /\ UNCHANGED <<store, ops>>

\* stages 2 and 3: Photon, without and with the bounding box
GeoPhoton(k, r) ==
    /\ geo.pc = StageName(k)
    /\ LET out == IF r.kind = "list" THEN PhotonToResults(r.features) ELSE geo.results
       IN  geo' = Advance([geo EXCEPT !.results = out,
                                      !.calls = Append(@, Call(k, "photon", geo.q,
                                                       PhotonQuerySimples(geo.q), out))],
                          k + 1)
    /\ UNCHANGED <<store, ops>>

\* the text stage k sends to Nominatim, 4 <= k <= 6
NominatimQuery(q, k) ==
    CASE k = 4 -> q \o Brasil
      [] k = 5 -> LET partes == Partes(q)
                  IN  partes[Len(partes) - 1] \o <<",", " ">> \o partes[Len(partes)]
                      \o Brasil
      [] k = 6 -> q

\* stages 4, 5 and 6: Nominatim free-form
GeoNominatim(k, nom) ==
    /\ geo.pc = StageName(k)
    /\ LET conv == NominatimToResults(nom)
           g    == [geo EXCEPT !.calls = Append(@, Call(k, "nominatim", geo.q,
                                   NominatimQuery(geo.q, k),
                                   IF conv.ok THEN conv.results ELSE <<>>))]
       IN  geo' = IF conv.ok THEN Advance([g EXCEPT !.results = conv.results], k + 1)
                  ELSE Raise(g)
    /\ UNCHANGED <<store, ops>>

-----------------------------------------------------------------------------
(* GeoSpec: forward-geocoding requests against every answer of the services *)

MaxGeoOps == 1

\* the q parameter of the request
Queries ==
    { Absent, <<" ">>,
      <<" ", "0", "1", "3", "1", "0", "-", "1", "0", "0">>,
      <<"I", "t", "u">>,
      <<"A", " ", "b", ",", "C">>,
      <<"R", ",", " ", "B", ",", " ", "C", ",", " ", "S", "P">> }

ViaCepDict(erro, logradouro, bairro, localidade, uf) ==
    [kind |-> "dict", erro |-> erro, logradouro |-> logradouro, bairro |-> bairro,
     localidade |-> localidade, uf |-> uf]

\* What the postal lookup can answer: a transport failure, a status other than
\* 200, a body that is no JSON, or JSON: an address, a city-wide code, an
\* object with empty fields, {"erro": true} for an unknown code, a truthy value
\* that is no object, a falsy value.
ViaCepResponses ==
    {[status |-> st, data |-> ViaCepNone] : st \in {"raise", "non200", "badjson"}}
    \cup {[status |-> "json", data |-> d] : d \in
            { ViaCepDict(FALSE, <<"R">>, <<"B">>, <<"C">>, <<"S", "P">>),
              ViaCepDict(FALSE, <<>>, <<>>, <<"C">>, <<"S", "P">>),
              ViaCepDict(FALSE, <<>>, <<>>, <<>>, <<>>),
              ViaCepDict(TRUE, <<>>, <<>>, <<>>, <<>>),
              [ViaCepNone EXCEPT !.kind = "truthy"],
              [ViaCepNone EXCEPT !.kind = "falsy"] }}

NominatimItem(i, k) ==
    [lat |-> <<"str", i>>, lon |-> <<"str", i>>, display_name |-> Str(k)]

\* What _req_nominatim can return at stage k: [] after a transport failure, a
\* status other than 200 or a body that is no JSON ("fail"), a JSON object, or a
\* JSON list: empty, of one item, of more items than the cap, with an item
\* lacking lat, with an item whose lat is no number.
NominatimBodies(k) ==
    {[kind |-> "fail", items |-> <<>>], [kind |-> "object", items |-> <<>>]}
    \cup {[kind |-> "list", items |-> its] : its \in
            { <<>>, <<NominatimItem(1, k)>>,
              [i \in 1 .. NominatimCap + 1 |-> NominatimItem(i, k)],
              <<[NominatimItem(1, k) EXCEPT !.lat = Absent], NominatimItem(2, k)>>,
              <<[NominatimItem(1, k) EXCEPT !.lat = <<"junk", 0>>]>> }}

PhotonFeature(i, k) ==
    [coords |-> <<i, i>>, props |-> [p \in {"name", "city"} |->
                                        IF p = "name" THEN Str(k) ELSE <<"C">>]]

\* What Photon can answer at stage k: a failure (transport, status, body that is
\* no JSON), JSON of an unexpected shape ("bad": the conversion raises inside
\* the try), or a feature list: empty, of one feature, of more features than
\* the cap, with a feature lacking coordinates and properties.
PhotonBodies(k) ==
    {[kind |-> "fail", features |-> <<>>], [kind |-> "bad", features |-> <<>>]}
    \cup {[kind |-> "list", features |-> fs] : fs \in
            { <<>>, <<PhotonFeature(1, k)>>,
              [i \in 1 .. PhotonCap + 1 |-> PhotonFeature(i, k)],
              <<[coords |-> <<>>, props |-> EmptyMap],
                [coords |-> <<2, 3>>, props |-> EmptyMap]>> }}

GeoInit == InitWith(EmptyMap, EmptyMap, MaxGeoOps, 0)

GeoNext ==
    \/ \E arg \in Queries : GeoStart(arg)
    \/ \E r \in ViaCepResponses : GeoViaCep(r)
    \/ \E nom \in NominatimBodies(1) : GeoCepRua(nom)
    \/ \E nom \in NominatimBodies(1) : GeoCepCidade(nom)
    \/ \E k \in {2, 3} : \E r \in PhotonBodies(k) : GeoPhoton(k, r)
    \/ \E k \in {4, 5, 6} : \E nom \in NominatimBodies(k) : GeoNominatim(k, nom)

GeoSpec == GeoInit /\ [][GeoNext]_vars

-----------------------------------------------------------------------------
(* Claims over the forward-geocoding chain *)

\* C7: a request with a non-empty query is answered 200 whatever the services
\* do, none of their answers makes an exception leave the handler; a request
\* with an empty or missing query is answered 400 before any external call.
C7_AlwaysAnswers200 ==
    geo.pc = "done" =>
        IF geo.q0 = <<>> THEN geo.status = 400 /\ geo.calls = <<>>
        ELSE geo.status = 200

\* The part of C7 about the empty or missing query.
C7_EmptyQueryIs400 ==
    (geo.pc = "done" /\ geo.q0 = <<>>) => (geo.status = 400 /\ geo.calls = <<>>)

\* C8: the stages run in the order 1 to 6, no external call follows a call
\* that produced a result, and a 200 answer carries exactly the result of the
\* last call made, at most 10 entries.
C8_FirstProducingStageWins ==
    geo.pc # "idle" =>
        /\ \A i, j \in DOMAIN geo.calls :
             i < j => /\ geo.calls[i].stage <= geo.calls[j].stage
                      /\ geo.calls[j].stage >= 2 => geo.calls[i].stage < geo.calls[j].stage
                      /\ geo.calls[i].out = <<>>
        /\ (geo.pc = "done" /\ geo.status = 200) =>
             /\ Len(geo.results) <= 10
             /\ geo.results = IF geo.calls = <<>> THEN <<>>
                              ELSE geo.calls[Len(geo.calls)].out
             /\ \A i \in DOMAIN geo.results :
                  geo.calls[Len(geo.calls)].service = "nominatim" =>
                      geo.results[i].display_name = Str(geo.calls[Len(geo.calls)].stage)

\* A postal-code request that went through every stage before stage 5 without
\* a result and returns the first 10 of the 11 places stage 5 found.
C8_Witness ==
    /\ geo.pc = "done" /\ geo.status = 200
    /\ Len(geo.calls) = 7
    /\ geo.calls[7].stage = 5
    /\ Len(geo.results) = 10
    /\ geo.results[10].lat = Num(10)

\* C10: stages 2 to 6 work on the comma-joined fields of the postal lookup when
\* the lookup supplied any, and on the caller's query otherwise, also when the
\* lookup reports the code as unknown; the working query is never empty.
C10_WorkingQuery ==
    geo.pc # "idle" =>
        \A i \in DOMAIN geo.calls :
            geo.calls[i].stage >= 2 =>
                LET v      == geo.viacep
                    fields == JoinNonEmpty(<<v.logradouro, v.bairro, v.localidade, v.uf>>)
                IN  /\ geo.calls[i].q = IF v.kind = "dict" /\ ~v.erro /\ fields # <<>>
                                        THEN fields ELSE geo.q0
                    /\ geo.calls[i].q # <<>>

-----------------------------------------------------------------------------
(* ConcSpec: two ingestion requests on two threads, no lock (app.py:185-192, *)
(* 82-92).  A thread may be preempted between any two statements that touch *)
(* the shared maps or the file; th[t] holds its position and its locals.    *)

\* the valid payload thread t posts; the two threads post for different devices
ConcPayload(t) ==
    IF t = 1 THEN Payload(R10000, Num(-2355000), Num(-4663000), Num(1700000001), Num(80))
    ELSE Payload(R10001, <<"str", -2290000>>, Num(-4320000), Absent, Absent)

\* the locals of receber_localizacao once the payload is parsed
ConcLocals(data, now) ==
    [device_id |-> Get(data.device_id, DefaultDeviceId),
     lat       |-> Float(data.lat),
     lng       |-> Float(data.lng),
     timestamp |-> Get(data.timestamp, now),
     bateria   |-> NormalizarBateria(data.bateria)]

ConcEntrada(l) == Entrada(l.lat, l.lng, l.timestamp)

\* the histories found on disk when the process started
ConcHistories ==
    { EmptyMap,
      MapPut(EmptyMap, R10000, RastroAntigo(1)),
      MapPut(MapPut(EmptyMap, R10000, RastroAntigo(1)), R10001, RastroAntigo(2)) }

ConcInit ==
    /\ \E hist \in ConcHistories : /\ historico = hist
                                   /\ historico_file = hist
    /\ localizacoes = EmptyMap
    /\ nomes_file = EmptyMap
    /\ cache_enderecos = EmptyMap
    /\ last_save = "none"
    /\ faults = 0
    /\ resp = Start
    /\ geocode_log = <<>>
    /\ ops = 0
    /\ geo = GeoIdle
    /\ \E now \in Clock :
         th = [t \in Threads |-> [pc |-> "guardar", l |-> ConcLocals(ConcPayload(t), now),
                                  size |-> 0, limitado |-> EmptyMap, sujo |-> FALSE]]

conc_rest == <<cache_enderecos, nomes_file, faults, resp, geocode_log, ops, geo>>

\* line 185: localizacoes[device_id] = loc
ConcGuardar(t) ==
    /\ th[t].pc = "guardar"
    /\ LET l == th[t].l
       IN  localizacoes' = MapPut(localizacoes, l.device_id,
               Localizacao(l.device_id, l.lat, l.lng, l.timestamp, l.bateria))
    /\ th' = [th EXCEPT ![t].pc = "garantir"]
    /\ UNCHANGED <<historico, historico_file, last_save, conc_rest>>

\* lines 187-188: if device_id not in historico: historico[device_id] = []
ConcGarantir(t) ==
    /\ th[t].pc = "garantir"
    /\ historico' = GarantirRastro(historico, th[t].l.device_id)
    /\ th' = [th EXCEPT ![t].pc = "anexar"]
    /\ UNCHANGED <<localizacoes, historico_file, last_save, conc_rest>>

\* A snapshot built by salvar_historico holds the list objects of historico,
\* not copies: an append to a list shows in every snapshot that holds it.
AnexarVivo(limitado, device_id, e) ==
    [d \in DOMAIN limitado |->
        IF d = device_id /\ limitado[d].vivo
        THEN [limitado[d] EXCEPT !.pontos = Append(@, e)]
        ELSE limitado[d]]

\* line 189: historico[device_id].append({...})
ConcAnexar(t) ==
    /\ th[t].pc = "anexar"
    /\ LET d == th[t].l.device_id
           e == ConcEntrada(th[t].l)
       IN  /\ historico' = Anexar(historico, d, e)
           /\ th' = [u \in Threads |->
                       [th[u] EXCEPT !.pc = IF u = t THEN "truncar" ELSE @,
                                     !.limitado = AnexarVivo(@, d, e)]]
    /\ UNCHANGED <<localizacoes, historico_file, last_save, conc_rest>>

\* The slice of line 190 binds a new list: the snapshots keep the old one.
Desligar(limitado, device_id) ==
    [d \in DOMAIN limitado |->
        IF d = device_id THEN [limitado[d] EXCEPT !.vivo = FALSE] ELSE limitado[d]]

\* line 190: historico[device_id] = historico[device_id][-2000:]
ConcTruncar(t) ==
    /\ th[t].pc = "truncar"
    /\ LET d == th[t].l.device_id
       IN  /\ historico' = Truncar(historico, d)
           /\ th' = [u \in Threads |->
                       [th[u] EXCEPT !.pc = IF u = t THEN "iterar" ELSE @,
                                     !.limitado = Desligar(@, d)]]
    /\ UNCHANGED <<localizacoes, historico_file, last_save, conc_rest>>

\* lines 85-87: the comprehension starts to iterate historico.items()
ConcIterar(t) ==
    /\ th[t].pc = "iterar"
    /\ th' = [th EXCEPT ![t].pc = "limitado",
                        ![t].size = Cardinality(DOMAIN historico)]
    /\ UNCHANGED <<localizacoes, historico, historico_file, last_save, conc_rest>>

\* the snapshot: a copy of the last 2000 of a longer list, else the list itself
Snapshot(h) ==
    [d \in DOMAIN h |-> [pontos |-> Limitado(h)[d], vivo |-> Len(h[d]) <= PersistCap]]

\* lines 85-88: the comprehension ends.  A key inserted since it started makes
\* the iterator raise RuntimeError, which line 91 swallows: nothing is saved.
ConcLimitado(t) ==
    /\ th[t].pc = "limitado"
    /\ IF Cardinality(DOMAIN historico) # th[t].size
       THEN th' = [th EXCEPT ![t].pc = "fim"]
       ELSE th' = [th EXCEPT ![t].pc = "abrir", ![t].limitado = Snapshot(historico)]
    /\ UNCHANGED <<localizacoes, historico, historico_file, last_save, conc_rest>>

\* line 89: open(historico_file, "w") empties the file
ConcAbrir(t) ==
    /\ th[t].pc = "abrir"
    /\ historico_file' = EmptyMap
    /\ last_save' = "truncated"
    /\ th' = [th EXCEPT ![t].pc = "gravar", ![t].sujo = FALSE]
    /\ UNCHANGED <<localizacoes, historico, conc_rest>>

\* the document json.dump writes from a snapshot
Documento(limitado) == [d \in DOMAIN limitado |-> limitado[d].pontos]

\* document a holds every device and every trail entry of document b
Estende(a, b) ==
    \A d \in DOMAIN b :
        /\ d \in DOMAIN a
        /\ Len(a[d]) >= Len(b[d])
        /\ FirstN(a[d], Len(b[d])) = b[d]

\* Each thread writes through its own file object, from offset 0.  When the
\* other thread wrote its document after this thread opened the file, this
\* thread's document lands over it: a document that extends the other replaces
\* it, a document the other extends leaves the other's tail behind it, which
\* carregar_historico reads as {}; the byte lengths decide the rest.
GravarOutcomes(doc, file, sujo) ==
    IF ~sujo \/ Estende(doc, file) THEN {"ok"}
    ELSE IF Estende(file, doc) THEN {"corrupt"}
    ELSE {"ok", "corrupt"}

\* lines 89-90: json.dump and the close that flushes it
ConcGravar(t) ==
    /\ th[t].pc = "gravar"
    /\ LET doc == Documento(th[t].limitado)
       IN  \E outcome \in GravarOutcomes(doc, historico_file, th[t].sujo) :
             /\ historico_file' = IF outcome = "ok" THEN doc ELSE EmptyMap
             /\ last_save' = outcome
    /\ th' = [u \in Threads |->
                [th[u] EXCEPT !.pc = IF u = t THEN "fim" ELSE @,
                              !.sujo = IF u # t /\ th[u].pc = "gravar" THEN TRUE ELSE @]]
    /\ UNCHANGED <<localizacoes, historico, conc_rest>>

ConcNext ==
    \E t \in Threads :
        \/ ConcGuardar(t)
        \/ ConcGarantir(t)
        \/ ConcAnexar(t)
        \/ ConcTruncar(t)
        \/ ConcIterar(t)
        \/ ConcLimitado(t)
        \/ ConcAbrir(t)
        \/ ConcGravar(t)

ConcSpec == ConcInit /\ [][ConcNext]_vars

-----------------------------------------------------------------------------
(* Claims over concurrent ingestion *)

Ultimo(s) == s[Len(s)]

\* thread t's update is in the maps of the process
NaMemoria(t) ==
    LET l == th[t].l
    IN  /\ l.device_id \in DOMAIN localizacoes
        /\ localizacoes[l.device_id] =
               Localizacao(l.device_id, l.lat, l.lng, l.timestamp, l.bateria)
        /\ l.device_id \in DOMAIN historico
        /\ historico[l.device_id] # <<>>
        /\ Ultimo(historico[l.device_id]) = ConcEntrada(l)

\* thread t's trail entry is in the history document on disk
NoArquivo(t) ==
    LET l == th[t].l
    IN  /\ l.device_id \in DOMAIN historico_file
        /\ historico_file[l.device_id] # <<>>
        /\ Ultimo(historico_file[l.device_id]) = ConcEntrada(l)

\* C9: once two concurrent ingestion requests for different devices have both
\* completed, the position map and the trail map hold both updates and the
\* history document on disk holds both new trail entries.
C9_NoUpdateLost ==
    (\A t \in Threads : th[t].pc = "fim") =>
        \A t \in Threads : NaMemoria(t) /\ NoArquivo(t)

\* The part of C9 about the maps in memory.
C9_InMemory ==
    (\A t \in Threads : th[t].pc = "fim") => \A t \in Threads : NaMemoria(t)

====
